---- MODULE Spec2Model ----
(***************************************************************************)
(* Model of the ledger store coordinator of chain/store/store.go:          *)
(* ChainStore with its durable key-value store, the write batch, the       *)
(* in-memory chain pointer, the header cache and the state-view handle.    *)
(* One writer runs InitLedgerStoreWithGenesisBlock and then SaveBlock      *)
(* calls, step by step; readers are the read operators evaluated in every  *)
(* state the writer passes through.                                        *)
(***************************************************************************)
EXTENDS Integers, Sequences, FiniteSets, TLC

VARIABLES
    db,                 \* cs.st: the durable key-value store, key -> value
    batch,              \* cs.st's open write batch: sequence of <<op, key, value>>
    States,             \* cs.States: the state-view handle
    currentBlockHash,   \* cs.currentBlockHash
    currentBlockHeight, \* cs.currentBlockHeight
    headerCache,        \* cs.headerCache: [byHash, byHeight]
    mu,                 \* cs.mu: "free", "writer" (Lock) or "reader" (RLock)
    pc,                 \* position of the writer
    ctx,                \* which caller runs persist: "init" or "save"
    cur,                \* the block of the call in progress
    newStates,          \* persist's local `states`
    ret,                \* what the last finished call returned
    config,             \* [mode, live]: StatePruningMode, LivePruning
    dbBefore,           \* history: db when the call in progress began
    ptrBefore,          \* history: in-memory pointer when the call began
    statesBefore,       \* history: States when the call began
    persisted,          \* history: headers of the blocks committed since the last reset
    calls,              \* number of SaveBlock calls made
    inOrder,            \* history: started on genesis, every block since saved in order
    reader              \* the operation a concurrent reader is inside, or "none"

vars == <<db, batch, States, currentBlockHash, currentBlockHeight, headerCache, mu,
          pc, ctx, cur, newStates, ret, config, dbBefore, ptrBefore, statesBefore,
          persisted, calls, inOrder, reader>>

-----------------------------------------------------------------------------
(* Bounds of the model *)
MaxCalls == 2
MaxAhead == 1

(* Configuration values (util/config) *)
DBVersion == 1
RewardAdjustInterval == 2
DonationAdjustDividendFactor == 1
DonationAdjustDivisorFactor == 2
BlockHeaderCacheSize == 1

MaxHeight == 2 * RewardAdjustInterval

\* Heights are uint32; the model scales the type down to 0 .. MaxUint32, keeping
\* its wrap-around: the successor of MaxUint32 is 0
MaxUint32 == 2 * MaxHeight - 1

EmptyUint256 == 0

-----------------------------------------------------------------------------
(* Transactions, headers, blocks *)

\* pb payload types: the eleven kinds persist accepts are 0..10
SupportedTypes == 0 .. 10
UnknownType == 11

TxCoinbase == [type |-> 0, amt |-> 2]
TxTransfer == [type |-> 2, amt |-> 3]
TxUnknown == [type |-> UnknownType, amt |-> 1]

ValidTxLists == { <<>>, <<TxCoinbase>>, <<TxCoinbase, TxTransfer>> }

UnsupportedTxLists == { <<TxCoinbase, TxUnknown>>, <<TxUnknown>> }

TxLists == ValidTxLists \cup UnsupportedTxLists

TxHash(tx) == 1 + tx.type * 4 + tx.amt

TxMarshal(tx) == <<tx.type, tx.amt>>

TxUnmarshal(bytes) == [type |-> bytes[1], amt |-> bytes[2]]

RECURSIVE TxRoot(_)
TxRoot(txs) ==
    IF txs = <<>> THEN 0
    ELSE TxRoot(SubSeq(txs, 1, Len(txs) - 1)) * 64 + TxHash(txs[Len(txs)])

\* Header.Hash(): a digest of the header fields, injective on the model's headers
HeaderHash(h) == 1 + h.height + 64 * (h.stateRoot + 64 * h.txRoot)

MkBlock(height, stateRoot, txs) ==
    [header |-> [height |-> height, stateRoot |-> stateRoot, txRoot |-> TxRoot(txs)],
     txs |-> txs]

BlockHash(b) == HeaderHash(b.header)

NoBlock == MkBlock(0, EmptyUint256, <<>>)

\* block.Trim: the header followed by the hashes of the transactions
Trim(b) ==
    <<b.header.height, b.header.stateRoot, b.header.txRoot,
      [i \in DOMAIN b.txs |-> TxHash(b.txs[i])]>>

\* Header.Unmarshal of the header part of a trimmed record
HeaderOfTrimmed(data) == [height |-> data[1], stateRoot |-> data[2], txRoot |-> data[3]]

TxHashesOfTrimmed(data) == data[4]

PutUint32LE(n) ==
    <<n % 256, (n \div 256) % 256, (n \div 65536) % 256, (n \div 16777216) % 256>>

Uint32LE(bytes) == bytes[1] + 256 * bytes[2] + 65536 * bytes[3] + 16777216 * bytes[4]

-----------------------------------------------------------------------------
(* Keys of the durable store (chain/db) *)
VersionKey == <<"version", 0>>
HeaderKey(hash) == <<"header", hash>>
BlockhashKey(height) == <<"blockhash", height>>
TransactionKey(hash) == <<"transaction", hash>>
CurrentStateTrie == <<"currentStateTrie", 0>>
DonationKey(height) == <<"donation", height>>
CurrentBlockHashKey == <<"currentBlockHash", 0>>
TriePrunedHeightKey == <<"triePrunedHeight", 0>>

(* The key-value engine: point put, and a batch committed as a whole *)
Has(d, k) == k \in DOMAIN d

Put(d, k, v) == [x \in DOMAIN d \cup {k} |-> IF x = k THEN v ELSE d[x]]

Delete(d, k) == [x \in DOMAIN d \ {k} |-> d[x]]

NewBatch == <<>>

BatchPut(bt, k, v) == Append(bt, <<"put", k, v>>)

BatchDelete(bt, k) == Append(bt, <<"delete", k, 0>>)

RECURSIVE BatchCommit(_, _)
BatchCommit(d, bt) ==
    IF bt = <<>> THEN d
    ELSE LET op == Head(bt)
             d1 == IF op[1] = "put" THEN Put(d, op[2], op[3]) ELSE Delete(d, op[2])
         IN  BatchCommit(d1, Tail(bt))

EmptyDB == [k \in {} |-> 0]

-----------------------------------------------------------------------------
(* The state view: an account trie of which the model keeps the treasury   *)
(* balance; a root is the digest of that state.                            *)
RootOf(balance) == IF balance = 0 THEN EmptyUint256 ELSE 2 * balance + 1

BalanceAt(root) == IF root = EmptyUint256 THEN 0 ELSE (root - 1) \div 2

NewStateDB(root) == [root |-> root, balance |-> BalanceAt(root)]

NilStateDB == [root |-> -1, balance |-> 0]

RECURSIVE SumAmounts(_)
SumAmounts(txs) ==
    IF txs = <<>> THEN 0 ELSE Head(txs).amt + SumAmounts(Tail(txs))

\* generateStateRoot: the state after the block's transactions, and its root
generateStateRoot(states, b) ==
    LET bal == states.balance + SumAmounts(b.txs)
    IN  [states |-> [root |-> RootOf(bal), balance |-> bal], root |-> RootOf(bal)]

-----------------------------------------------------------------------------
(* The header cache *)
EmptyCache == [byHash |-> [k \in {} |-> 0], byHeight |-> [k \in {} |-> 0]]

AddHeaderToCache(hc, header) ==
    [byHash |-> Put(hc.byHash, HeaderHash(header), header),
     byHeight |-> Put(hc.byHeight, header.height, HeaderHash(header))]

\* RemoveCachedHeader dropping the height index entry only
RemoveCachedHeaderIndexOnly(hc, height) ==
    [byHash |-> hc.byHash, byHeight |-> Delete(hc.byHeight, height)]

GetCachedHeader(hc, hash) ==
    IF hash \in DOMAIN hc.byHash THEN [ok |-> TRUE, header |-> hc.byHash[hash]]
    ELSE [ok |-> FALSE, err |-> "not found"]

RemoveCachedHeader(hc, height) ==
    IF height \in DOMAIN hc.byHeight
    THEN [byHash |-> Delete(hc.byHash, hc.byHeight[height]),
          byHeight |-> Delete(hc.byHeight, height)]
    ELSE hc

-----------------------------------------------------------------------------
(* Read operations of ChainStore; a failed read is [ok |-> FALSE] *)
Fail(e) == [ok |-> FALSE, err |-> e]

GetHeader(d, hash) ==
    IF Has(d, HeaderKey(hash))
    THEN [ok |-> TRUE, header |-> HeaderOfTrimmed(d[HeaderKey(hash)])]
    ELSE Fail("not found")

\* getTx decoding the stored value without dropping the height prefix
getTxKeepsPrefix(d, hash) ==
    IF Has(d, TransactionKey(hash))
    THEN LET value == d[TransactionKey(hash)]
         IN  [ok |-> TRUE, height |-> Uint32LE(value), txn |-> TxUnmarshal(value)]
    ELSE Fail("not found")

getTx(d, hash) ==
    IF Has(d, TransactionKey(hash))
    THEN LET value == d[TransactionKey(hash)]
         IN  [ok |-> TRUE, height |-> Uint32LE(value),
              txn |-> TxUnmarshal(SubSeq(value, 5, Len(value)))]
    ELSE Fail("not found")

GetBlock(d, hash) ==
    IF ~Has(d, HeaderKey(hash)) THEN Fail("not found")
    ELSE LET data == d[HeaderKey(hash)]
             hashes == TxHashesOfTrimmed(data)
         IN  IF \E i \in DOMAIN hashes : ~getTx(d, hashes[i]).ok THEN Fail("not found")
             ELSE [ok |-> TRUE,
                   block |-> [header |-> HeaderOfTrimmed(data),
                              txs |-> [i \in DOMAIN hashes |-> getTx(d, hashes[i]).txn]]]

\* IsBlockInStore without the comparison with the current height
IsBlockInStoreAnyHeight(d, height, hash) ==
    GetHeader(d, hash).ok

IsBlockInStore(d, height, hash) ==
    LET r == GetHeader(d, hash)
    IN  IF ~r.ok \/ r.header.height > height THEN FALSE ELSE TRUE

GetHeaderWithCache(hc, hash) == GetCachedHeader(hc, hash)

GetHeightByBlockHash(hc, d, hash) ==
    LET header == GetHeaderWithCache(hc, hash)
        block == GetBlock(d, hash)
    IN  IF header.ok THEN [ok |-> TRUE, height |-> header.header.height]
        ELSE IF ~block.ok THEN Fail(block.err)
        ELSE [ok |-> TRUE, height |-> block.block.header.height]

getCurrentBlockHashFromDB(d) ==
    IF Has(d, CurrentBlockHashKey)
    THEN [ok |-> TRUE, hash |-> d[CurrentBlockHashKey][1], height |-> d[CurrentBlockHashKey][2]]
    ELSE Fail("not found")

GetBlockHash(d, height) ==
    IF Has(d, BlockhashKey(height)) THEN [ok |-> TRUE, hash |-> d[BlockhashKey(height)]]
    ELSE Fail("not found")

GetCurrentBlockStateRoot(d) ==
    IF Has(d, CurrentStateTrie) THEN [ok |-> TRUE, root |-> d[CurrentStateTrie]]
    ELSE Fail("not found")

\* the loop of GetStateRoots from height i on, `i++` wrapping as uint32 does; a
\* loop that has run through every height without leaving never returns
RECURSIVE GetStateRootsLoop(_, _, _, _, _)
GetStateRootsLoop(d, i, toHeight, roots, steps) ==
    IF ~(i <= toHeight) THEN [ok |-> TRUE, roots |-> roots]
    ELSE IF steps > MaxUint32 THEN Fail("no return")
    ELSE LET headerHash == GetBlockHash(d, i)
             header == GetHeader(d, headerHash.hash)
         IN  IF ~headerHash.ok THEN Fail(headerHash.err)
             ELSE IF ~header.ok THEN Fail(header.err)
             ELSE GetStateRootsLoop(d, (i + 1) % (MaxUint32 + 1), toHeight,
                                    Append(roots, header.header.stateRoot), steps + 1)

GetStateRoots(d, fromHeight, toHeight) ==
    IF toHeight < fromHeight THEN Fail("toHeight is less than fromHeight")
    ELSE GetStateRootsLoop(d, fromHeight, toHeight, <<>>, 0)

-----------------------------------------------------------------------------
(* Donation accounting *)
NewDonation(height, amount) == [Height |-> height, Amount |-> amount]

DonationSerialize(dn) == <<dn.Height, dn.Amount>>

DonationDeserialize(data) == [Height |-> data[1], Amount |-> data[2]]

getDonation(d, height) ==
    LET currentDonationHeight == (height \div RewardAdjustInterval) * RewardAdjustInterval
    IN  IF Has(d, DonationKey(currentDonationHeight))
        THEN [ok |-> TRUE, donation |-> DonationDeserialize(d[DonationKey(currentDonationHeight)])]
        ELSE Fail("not found")

DonationAmount(states) ==
    LET amount == states.balance
        donation == (amount * DonationAdjustDividendFactor) \div DonationAdjustDivisorFactor
    IN  donation \div RewardAdjustInterval

\* CalcNextDonation without the continuity check
CalcNextDonationUnchecked(d, curHeight, states, height) ==
    IF height = 0 THEN [ok |-> TRUE, donation |-> NewDonation(0, 0)]
    ELSE LET last == getDonation(d, curHeight)
         IN  IF ~last.ok THEN Fail("not found")
             ELSE [ok |-> TRUE, donation |-> NewDonation(height, DonationAmount(states))]

\* CalcNextDonation rejecting only heights below the next boundary
CalcNextDonationLoose(d, curHeight, states, height) ==
    IF height = 0 THEN [ok |-> TRUE, donation |-> NewDonation(0, 0)]
    ELSE LET last == getDonation(d, curHeight)
         IN  IF ~last.ok THEN Fail("not found")
             ELSE IF last.donation.Height + RewardAdjustInterval > height
                  THEN Fail("invalid height to update donation")
                  ELSE [ok |-> TRUE, donation |-> NewDonation(height, DonationAmount(states))]

CalcNextDonation(d, curHeight, states, height) ==
    IF height = 0 THEN [ok |-> TRUE, donation |-> NewDonation(0, 0)]
    ELSE LET last == getDonation(d, curHeight)
         IN  IF ~last.ok THEN Fail("not found")
             ELSE IF last.donation.Height + RewardAdjustInterval # height
                  THEN Fail("invalid height to update donation")
                  ELSE [ok |-> TRUE, donation |-> NewDonation(height, DonationAmount(states))]

-----------------------------------------------------------------------------
(* persist, up to its BatchCommit.  The steps thread a record                *)
(* [err, batch, db, states]: err is the error persist returns ("" while none),*)
(* batch the write batch, db the durable store, states the local `states`.   *)
(* fp names the engine call that fails with an I/O error in this run, if any. *)
FailPoints ==
    { "none", "newbatch", "header", "blockhash", "transaction", "generate",
      "stateroot", "donation", "pointer" }

IOError == "io error"

Step(s, failed, bt) ==
    IF failed THEN [s EXCEPT !.err = IOError] ELSE [s EXCEPT !.batch = bt]

\* persist without its NewBatch: the previous call's batch stays open
persistOpenKeepsBatch(s, fp) ==
    IF fp = "newbatch" THEN [s EXCEPT !.err = IOError] ELSE s

persistOpen(s, fp) ==
    Step(s, fp = "newbatch", NewBatch)

persistHeader(s, b, fp) ==
    IF s.err # "" THEN s
    ELSE LET headerHash == BlockHash(b)
             s1 == Step(s, fp = "header", BatchPut(s.batch, HeaderKey(headerHash), Trim(b)))
         IN  IF s1.err # "" THEN s1
             ELSE Step(s1, fp = "blockhash",
                       BatchPut(s1.batch, BlockhashKey(b.header.height), headerHash))

RECURSIVE persistTransactions(_, _, _, _)
persistTransactions(s, b, i, fp) ==
    IF s.err # "" \/ i > Len(b.txs) THEN s
    ELSE LET txn == b.txs[i]
             buffer == PutUint32LE(b.header.height) \o TxMarshal(txn)
             s1 == Step(s, fp = "transaction" /\ i = Len(b.txs),
                        BatchPut(s.batch, TransactionKey(TxHash(txn)), buffer))
         IN  IF s1.err # "" THEN s1
             ELSE IF txn.type \notin SupportedTypes
                  THEN [s1 EXCEPT !.err = "unsupported transaction type"]
                  ELSE persistTransactions(s1, b, i + 1, fp)

\* persist without the comparison of the computed root with the declared root
persistStateRootUnchecked(s, b, states, fp) ==
    IF s.err # "" THEN s
    ELSE IF fp = "generate" THEN [s EXCEPT !.err = "generate state root error"]
    ELSE LET g == generateStateRoot(states, b)
         IN  Step([s EXCEPT !.states = g.states], fp = "stateroot",
                  BatchPut(s.batch, CurrentStateTrie, g.root))

persistStateRoot(s, b, states, fp) ==
    IF s.err # "" THEN s
    ELSE IF fp = "generate" THEN [s EXCEPT !.err = "generate state root error"]
    ELSE LET g == generateStateRoot(states, b)
         IN  IF g.root # b.header.stateRoot THEN [s EXCEPT !.err = "state root not equal"]
             ELSE Step([s EXCEPT !.states = g.states], fp = "stateroot",
                       BatchPut(s.batch, CurrentStateTrie, g.root))

\* persist computing the donation from the state view the block produces
persistDonationFromNewStates(s, b, curHeight, states, fp) ==
    IF s.err # "" THEN s
    ELSE IF b.header.height % RewardAdjustInterval = 0
         THEN LET r == CalcNextDonation(s.db, curHeight, s.states, b.header.height)
              IN  IF ~r.ok THEN [s EXCEPT !.err = r.err]
                  ELSE Step(s, fp = "donation",
                            BatchPut(s.batch, DonationKey(b.header.height),
                                     DonationSerialize(r.donation)))
         ELSE s

persistDonation(s, b, curHeight, states, fp) ==
    IF s.err # "" THEN s
    ELSE IF b.header.height % RewardAdjustInterval = 0
         THEN LET r == CalcNextDonation(s.db, curHeight, states, b.header.height)
              IN  IF ~r.ok THEN [s EXCEPT !.err = r.err]
                  ELSE Step(s, fp = "donation",
                            BatchPut(s.batch, DonationKey(b.header.height),
                                     DonationSerialize(r.donation)))
         ELSE s

\* persist writing the chain pointer with a direct Put instead of staging it
persistPointerDirectPut(s, b, fp) ==
    IF s.err # "" THEN s
    ELSE IF fp = "pointer" THEN [s EXCEPT !.err = IOError]
    ELSE [s EXCEPT !.db = Put(s.db, CurrentBlockHashKey, <<BlockHash(b), b.header.height>>)]

persistPointer(s, b, fp) ==
    IF s.err # "" THEN s
    ELSE Step(s, fp = "pointer",
              BatchPut(s.batch, CurrentBlockHashKey, <<BlockHash(b), b.header.height>>))

persistStage(b, fp, bt, d, states, curHeight) ==
    LET s0 == [err |-> "", batch |-> bt, db |-> d, states |-> NilStateDB]
        s1 == persistOpen(s0, fp)
        s2 == persistHeader(s1, b, fp)
        s3 == persistTransactions(s2, b, 1, fp)
        s4 == persistStateRoot(s3, b, states, fp)
        s5 == persistDonation(s4, b, curHeight, states, fp)
    IN  persistPointer(s5, b, fp)

\* the low-memory pruning pass, as far as the store sees it: the pruned-height cursor
PruneStatesLowMemory(d, height) ==
    IF Has(d, TriePrunedHeightKey) /\ d[TriePrunedHeightKey] >= height THEN d
    ELSE Put(d, TriePrunedHeightKey, height)

-----------------------------------------------------------------------------
GenesisBlock == MkBlock(0, EmptyUint256, <<>>)

Configs ==
    { [mode |-> "lowmem", live |-> TRUE], [mode |-> "none", live |-> TRUE],
      [mode |-> "unknown", live |-> FALSE] }

\* InitLedgerStoreWithGenesisBlock has returned without error
Started ==
    \/ pc \in {"idle", "persisted", "wroteHeight", "pointed", "cached", "returned"}
    \/ pc \in {"staged", "committed"} /\ ctx = "save"

\* The submissions the model makes: every well-formed block at every height up
\* to MaxHeight, one at the largest height a block can carry, and the faulty ones
\* (wrong declared root, unsupported payload type, an engine call that fails) at
\* the first adjustment height.
FaultHeights == {RewardAdjustInterval}

SaveInputs ==
    { in \in [height : 0 .. MaxUint32, txs : TxLists, rootOk : BOOLEAN, fp : FailPoints] :
        \/ in.height <= MaxHeight /\ in.txs \in ValidTxLists /\ in.rootOk /\ in.fp = "none"
        \/ in.height = MaxUint32 /\ in.txs = <<TxCoinbase>> /\ in.rootOk /\ in.fp = "none"
        \/ /\ in.height \in FaultHeights
           /\ \/ in.txs = <<TxCoinbase>> /\ ~in.rootOk /\ in.fp = "none"
              \/ in.txs \in UnsupportedTxLists /\ in.rootOk /\ in.fp = "none"
              \/ in.txs = <<TxCoinbase, TxTransfer>> /\ in.rootOk /\ in.fp # "none"
                   /\ (in.fp = "donation" => in.height = RewardAdjustInterval) }

\* NewLedgerStore on a fresh database
Init ==
    /\ db = EmptyDB
    /\ batch = NewBatch
    /\ States = NilStateDB
    /\ currentBlockHash = EmptyUint256
    /\ currentBlockHeight = 0
    /\ headerCache = EmptyCache
    /\ mu = "free"
    /\ pc = "start"
    /\ ctx = "init"
    /\ cur = NoBlock
    /\ newStates = NilStateDB
    /\ ret = ""
    /\ config \in Configs
    /\ dbBefore = EmptyDB
    /\ ptrBefore = <<EmptyUint256, 0>>
    /\ statesBefore = NilStateDB
    /\ persisted = {}
    /\ calls = 0
    /\ inOrder = FALSE
    /\ reader = "none"

StoredVersion == IF Has(db, VersionKey) THEN db[VersionKey] ELSE 0

RECURSIVE DeleteAll(_, _)
DeleteAll(bt, keys) ==
    IF keys = {} THEN bt
    ELSE LET k == CHOOSE x \in keys : TRUE
         IN  DeleteAll(BatchDelete(bt, k), keys \ {k})

\* the version-mismatch path writing the version marker right after ResetDB,
\* before genesis is persisted
InitResetDBMarksVersion(commitOk) ==
    /\ pc = "start"
    /\ StoredVersion # DBVersion
    /\ batch' = DeleteAll(NewBatch, DOMAIN db)
    /\ IF commitOk
       THEN /\ db' = Put(BatchCommit(db, batch'), VersionKey, DBVersion)
            /\ States' = NewStateDB(EmptyUint256)
            /\ persisted' = {}
            /\ pc' = "initPersist"
            /\ ret' = ""
       ELSE /\ pc' = "failed"
            /\ ret' = "ResetDB error"
            /\ UNCHANGED <<db, States, persisted>>
    /\ ctx' = "init"
    /\ UNCHANGED <<currentBlockHash, currentBlockHeight, headerCache, mu, cur, newStates,
                   config, dbBefore, ptrBefore, statesBefore, calls, inOrder, reader>>

\* InitLedgerStoreWithGenesisBlock, version mismatch: ResetDB and a new state view
InitResetDB(commitOk) ==
    /\ pc = "start"
    /\ StoredVersion # DBVersion
    /\ batch' = DeleteAll(NewBatch, DOMAIN db)
    /\ IF commitOk
       THEN /\ db' = BatchCommit(db, batch')
            /\ States' = NewStateDB(EmptyUint256)
            /\ persisted' = {}
            /\ pc' = "initPersist"
            /\ ret' = ""
       ELSE /\ pc' = "failed"
            /\ ret' = "ResetDB error"
            /\ UNCHANGED <<db, States, persisted>>
    /\ ctx' = "init"
    /\ UNCHANGED <<currentBlockHash, currentBlockHeight, headerCache, mu, cur, newStates,
                   config, dbBefore, ptrBefore, statesBefore, calls, inOrder, reader>>

\* the start of persist(b), up to the point where the batch is ready to commit
Persist(b, fp, caller, failPc) ==
    LET s == persistStage(b, fp, batch, db, States, currentBlockHeight)
    IN  /\ batch' = s.batch
        /\ db' = s.db
        /\ cur' = b
        /\ ctx' = caller
        /\ dbBefore' = db
        /\ ptrBefore' = <<currentBlockHash, currentBlockHeight>>
        /\ statesBefore' = States
        /\ IF s.err = ""
           THEN /\ pc' = "staged"
                /\ newStates' = s.states
                /\ ret' = ""
           ELSE /\ pc' = failPc
                /\ newStates' = NilStateDB
                /\ ret' = s.err
        /\ UNCHANGED <<States, currentBlockHash, currentBlockHeight, headerCache, mu,
                       config, persisted, inOrder, reader>>

InitPersist(fp) ==
    /\ pc = "initPersist"
    /\ Persist(GenesisBlock, fp, "init", "failed")
    /\ UNCHANGED calls

\* SaveBlock(b): the call of persist.  With a nil cs.States the state transition
\* dereferences nil and the process stops; that run goes on with Restart.
SaveBlock(height, txs, rootOk, fp) ==
    /\ pc = "idle"
    /\ calls < MaxCalls
    /\ States # NilStateDB
    /\ LET computed == States.balance + SumAmounts(txs)
           declared == IF rootOk THEN RootOf(computed) ELSE RootOf(computed + 1)
       IN  Persist(MkBlock(height, declared, txs), fp, "save", "returned")
    /\ calls' = calls + 1

BatchCommitOk ==
    /\ pc = "staged"
    /\ db' = BatchCommit(db, batch)
    /\ persisted' = persisted \cup {cur.header}
    /\ pc' = "committed"
    /\ UNCHANGED <<batch, States, currentBlockHash, currentBlockHeight, headerCache, mu,
                   ctx, cur, newStates, ret, config, dbBefore, ptrBefore, statesBefore,
                   calls, inOrder, reader>>

\* persist going on after a failed BatchCommit as if it had succeeded
BatchCommitFailIgnored ==
    /\ pc = "staged"
    /\ pc' = "committed"
    /\ UNCHANGED <<db, batch, States, currentBlockHash, currentBlockHeight, headerCache,
                   mu, ctx, cur, newStates, ret, config, dbBefore, ptrBefore, statesBefore,
                   persisted, calls, inOrder, reader>>

\* persist replacing cs.States although BatchCommit failed
BatchCommitFailSetsStates ==
    /\ pc = "staged"
    /\ pc' = IF ctx = "init" THEN "failed" ELSE "returned"
    /\ ret' = IOError
    /\ States' = newStates
    /\ UNCHANGED <<db, batch, currentBlockHash, currentBlockHeight, headerCache,
                   mu, ctx, cur, newStates, config, dbBefore, ptrBefore, statesBefore,
                   persisted, calls, inOrder, reader>>

BatchCommitFail ==
    /\ pc = "staged"
    /\ pc' = IF ctx = "init" THEN "failed" ELSE "returned"
    /\ ret' = IOError
    /\ UNCHANGED <<db, batch, States, currentBlockHash, currentBlockHeight, headerCache,
                   mu, ctx, cur, newStates, config, dbBefore, ptrBefore, statesBefore,
                   persisted, calls, inOrder, reader>>

\* cs.States = states; persist returns nil
SetStates ==
    /\ pc = "committed"
    /\ States' = newStates
    /\ pc' = IF ctx = "init" THEN "initPutVersion" ELSE "persisted"
    /\ UNCHANGED <<db, batch, currentBlockHash, currentBlockHeight, headerCache, mu,
                   ctx, cur, newStates, ret, config, dbBefore, ptrBefore, statesBefore,
                   persisted, calls, inOrder, reader>>

PutVersion(ok) ==
    /\ pc = "initPutVersion"
    /\ IF ok
       THEN /\ db' = Put(db, VersionKey, DBVersion)
            /\ pc' = "initFinish"
            /\ ret' = ret
       ELSE /\ db' = db
            /\ pc' = "failed"
            /\ ret' = "put version error"
    /\ UNCHANGED <<batch, States, currentBlockHash, currentBlockHeight, headerCache, mu,
                   ctx, cur, newStates, config, dbBefore, ptrBefore, statesBefore,
                   persisted, calls, inOrder, reader>>

\* the fresh start returning without setting cs.currentBlockHash
InitFinishKeepsPointer ==
    /\ pc = "initFinish"
    /\ headerCache' = AddHeaderToCache(headerCache, GenesisBlock.header)
    /\ currentBlockHash' = currentBlockHash
    /\ currentBlockHeight' = 0
    /\ pc' = "idle"
    /\ ret' = ""
    /\ cur' = NoBlock
    /\ newStates' = NilStateDB
    /\ dbBefore' = db
    /\ ptrBefore' = <<currentBlockHash', currentBlockHeight'>>
    /\ statesBefore' = States
    /\ inOrder' = TRUE
    /\ UNCHANGED <<db, batch, States, mu, ctx, config, persisted, calls, reader>>

InitFinish ==
    /\ pc = "initFinish"
    /\ headerCache' = AddHeaderToCache(headerCache, GenesisBlock.header)
    /\ currentBlockHash' = BlockHash(GenesisBlock)
    /\ currentBlockHeight' = 0
    /\ pc' = "idle"
    /\ ret' = ""
    /\ cur' = NoBlock
    /\ newStates' = NilStateDB
    /\ dbBefore' = db
    /\ ptrBefore' = <<currentBlockHash', currentBlockHeight'>>
    /\ statesBefore' = States
    /\ inOrder' = TRUE
    /\ UNCHANGED <<db, batch, States, mu, ctx, config, persisted, calls, reader>>

\* InitLedgerStoreWithGenesisBlock, version match: load the pointer and the state
\* view; rootOk: the engine's read of the current state root succeeds, pruneOk:
\* the full pruning pass succeeds
InitExisting(rootOk, pruneOk) ==
    /\ pc = "start"
    /\ StoredVersion = DBVersion
    /\ LET inStore == IsBlockInStore(db, currentBlockHeight, BlockHash(GenesisBlock))
           ptr == getCurrentBlockHashFromDB(db)
           hdr == GetHeader(db, ptr.hash)
           root == IF rootOk THEN GetCurrentBlockStateRoot(db) ELSE Fail(IOError)
       IN  IF ~inStore
           THEN /\ pc' = "failed"
                /\ ret' = "genesisBlock is NOT in BlockStore"
                /\ UNCHANGED <<db, States, currentBlockHash, currentBlockHeight, headerCache>>
           ELSE IF ~ptr.ok
           THEN /\ pc' = "failed"
                /\ ret' = ptr.err
                /\ currentBlockHash' = EmptyUint256
                /\ currentBlockHeight' = 0
                /\ UNCHANGED <<db, States, headerCache>>
           ELSE /\ currentBlockHash' = ptr.hash
                /\ currentBlockHeight' = ptr.height
                /\ IF ~hdr.ok
                   THEN /\ pc' = "failed"
                        /\ ret' = hdr.err
                        /\ UNCHANGED <<db, States, headerCache>>
                   ELSE /\ headerCache' = AddHeaderToCache(headerCache, hdr.header)
                        /\ IF ~root.ok
                           THEN /\ pc' = "idle"
                                /\ ret' = ""
                                /\ UNCHANGED <<db, States>>
                           ELSE /\ States' = NewStateDB(root.root)
                                /\ IF config.mode = "lowmem"
                                   THEN IF pruneOk
                                        THEN /\ db' = PruneStatesLowMemory(db, ptr.height)
                                             /\ pc' = "idle"
                                             /\ ret' = ""
                                        ELSE /\ db' = db
                                             /\ pc' = "failed"
                                             /\ ret' = "pruning error"
                                   ELSE IF config.mode = "none"
                                        THEN /\ db' = db
                                             /\ pc' = "idle"
                                             /\ ret' = ""
                                        ELSE /\ db' = db
                                             /\ pc' = "failed"
                                             /\ ret' = "unknown state pruning mode"
    /\ dbBefore' = db'
    /\ ptrBefore' = <<currentBlockHash', currentBlockHeight'>>
    /\ statesBefore' = States'
    /\ UNCHANGED <<batch, mu, ctx, cur, newStates, config, persisted, calls, inOrder, reader>>

\* SaveBlock after persist: the pointer, under cs.mu
WriteHeight ==
    /\ pc = "persisted"
    /\ mu = "free"
    /\ mu' = "writer"
    /\ currentBlockHeight' = cur.header.height
    /\ pc' = "wroteHeight"
    /\ UNCHANGED <<db, batch, States, currentBlockHash, headerCache, ctx, cur, newStates,
                   ret, config, dbBefore, ptrBefore, statesBefore, persisted, calls, inOrder, reader>>

WriteHash ==
    /\ pc = "wroteHeight"
    /\ currentBlockHash' = BlockHash(cur)
    /\ mu' = "free"
    /\ pc' = "pointed"
    /\ UNCHANGED <<db, batch, States, currentBlockHeight, headerCache, ctx, cur, newStates,
                   ret, config, dbBefore, ptrBefore, statesBefore, persisted, calls, inOrder, reader>>

UpdateHeaderCache ==
    /\ pc = "pointed"
    /\ LET hc == IF currentBlockHeight > BlockHeaderCacheSize
                 THEN RemoveCachedHeader(headerCache, currentBlockHeight - BlockHeaderCacheSize)
                 ELSE headerCache
       IN  headerCache' = AddHeaderToCache(hc, cur.header)
    /\ pc' = "cached"
    /\ inOrder' = (inOrder /\ cur.header.height = ptrBefore[2] + 1)
    /\ UNCHANGED <<db, batch, States, currentBlockHash, currentBlockHeight, mu, ctx, cur,
                   newStates, ret, config, dbBefore, ptrBefore, statesBefore, persisted,
                   calls, reader>>

LivePruning == config.live /\ config.mode = "lowmem"

SkipPruning ==
    /\ pc = "cached"
    /\ ~LivePruning
    /\ pc' = "returned"
    /\ ret' = "ok"
    /\ UNCHANGED <<db, batch, States, currentBlockHash, currentBlockHeight, headerCache,
                   mu, ctx, cur, newStates, config, dbBefore, ptrBefore, statesBefore,
                   persisted, calls, inOrder, reader>>

LivePrune(ok) ==
    /\ pc = "cached"
    /\ LivePruning
    /\ IF ok
       THEN /\ db' = PruneStatesLowMemory(db, currentBlockHeight)
            /\ ret' = "ok"
       ELSE /\ db' = db
            /\ ret' = "pruning error"
    /\ pc' = "returned"
    /\ UNCHANGED <<batch, States, currentBlockHash, currentBlockHeight, headerCache, mu,
                   ctx, cur, newStates, config, dbBefore, ptrBefore, statesBefore,
                   persisted, calls, inOrder, reader>>

\* SaveBlock has returned `ret` to its caller
Return ==
    /\ pc = "returned"
    /\ pc' = "idle"
    /\ cur' = NoBlock
    /\ newStates' = NilStateDB
    /\ ret' = ""
    /\ dbBefore' = db
    /\ ptrBefore' = <<currentBlockHash, currentBlockHeight>>
    /\ statesBefore' = States
    /\ UNCHANGED <<db, batch, States, currentBlockHash, currentBlockHeight, headerCache,
                   mu, ctx, config, persisted, calls, inOrder, reader>>

\* AddHeader(header), from the header-sync path at any time after start-up: the
\* header of a block that may follow the current one, received ahead of its body
NextHeader == MkBlock(currentBlockHeight + 1, States.root, <<>>).header

AddHeader ==
    /\ Started
    /\ currentBlockHeight < MaxHeight
    /\ Cardinality({h \in DOMAIN headerCache.byHeight : h > currentBlockHeight}) < MaxAhead
    /\ headerCache' = AddHeaderToCache(headerCache, NextHeader)
    /\ UNCHANGED <<db, batch, States, currentBlockHash, currentBlockHeight, mu, pc, ctx,
                   cur, newStates, ret, config, dbBefore, ptrBefore, statesBefore,
                   persisted, calls, inOrder, reader>>

\* the process stops (a crash, or the exit after a failed start) and is started again
Restart ==
    /\ pc # "start"
    /\ batch' = NewBatch
    /\ States' = NilStateDB
    /\ currentBlockHash' = EmptyUint256
    /\ currentBlockHeight' = 0
    /\ headerCache' = EmptyCache
    /\ mu' = "free"
    /\ pc' = "start"
    /\ ctx' = "init"
    /\ cur' = NoBlock
    /\ newStates' = NilStateDB
    /\ ret' = ""
    /\ dbBefore' = db
    /\ ptrBefore' = <<EmptyUint256, 0>>
    /\ statesBefore' = NilStateDB
    /\ inOrder' = FALSE
    /\ reader' = "none"
    /\ UNCHANGED <<db, config, persisted, calls>>

Next ==
    \/ \E ok \in BOOLEAN : InitResetDB(ok)
    \/ \E fp \in FailPoints : InitPersist(fp)
    \/ \E ok \in BOOLEAN : PutVersion(ok)
    \/ InitFinish
    \/ \E rootOk \in BOOLEAN, pruneOk \in BOOLEAN : InitExisting(rootOk, pruneOk)
    \/ \E in \in SaveInputs : SaveBlock(in.height, in.txs, in.rootOk, in.fp)
    \/ BatchCommitOk
    \/ BatchCommitFail
    \/ SetStates
    \/ WriteHeight
    \/ WriteHash
    \/ UpdateHeaderCache
    \/ SkipPruning
    \/ \E ok \in BOOLEAN : LivePrune(ok)
    \/ Return
    \/ Restart

\* the writer alone
Spec == Init /\ [][Next]_vars

\* the well-formed submissions up to MaxHeight
SyncInputs ==
    { in \in SaveInputs :
        in.height <= MaxHeight /\ in.txs \in ValidTxLists /\ in.rootOk /\ in.fp = "none" }

\* the writer saving well-formed blocks, and the header-sync path adding headers
\* to the cache
NextSync ==
    \/ \E ok \in BOOLEAN : InitResetDB(ok)
    \/ \E fp \in FailPoints : InitPersist(fp)
    \/ \E ok \in BOOLEAN : PutVersion(ok)
    \/ InitFinish
    \/ \E rootOk \in BOOLEAN, pruneOk \in BOOLEAN : InitExisting(rootOk, pruneOk)
    \/ \E in \in SyncInputs : SaveBlock(in.height, in.txs, in.rootOk, in.fp)
    \/ BatchCommitOk
    \/ BatchCommitFail
    \/ SetStates
    \/ WriteHeight
    \/ WriteHash
    \/ UpdateHeaderCache
    \/ SkipPruning
    \/ \E ok \in BOOLEAN : LivePrune(ok)
    \/ Return
    \/ Restart
    \/ AddHeader

SpecSync == Init /\ [][NextSync]_vars

\* A concurrent reader: the operations that read the in-memory chain pointer.
\* GetHeight and GetCurrentBlockHash read it between RLock and RUnlock;
\* IsBlockInStore and GetDonation (through getDonation) read cs.currentBlockHeight
\* without taking cs.mu.
ReaderOps == {"GetHeight", "GetCurrentBlockHash", "IsBlockInStore", "GetDonation"}

TakesRLock(op) == op \in {"GetHeight", "GetCurrentBlockHash"}

\* the reader arrives at its read of the pointer field
ReaderEnter(op) ==
    /\ Started
    /\ reader = "none"
    /\ TakesRLock(op) => mu = "free"
    /\ reader' = op
    /\ mu' = IF TakesRLock(op) THEN "reader" ELSE mu
    /\ UNCHANGED <<db, batch, States, currentBlockHash, currentBlockHeight, headerCache,
                   pc, ctx, cur, newStates, ret, config, dbBefore, ptrBefore, statesBefore,
                   persisted, calls, inOrder>>

\* the reader has read the field and returns
ReaderLeave ==
    /\ reader # "none"
    /\ reader' = "none"
    /\ mu' = IF TakesRLock(reader) THEN "free" ELSE mu
    /\ UNCHANGED <<db, batch, States, currentBlockHash, currentBlockHeight, headerCache,
                   pc, ctx, cur, newStates, ret, config, dbBefore, ptrBefore, statesBefore,
                   persisted, calls, inOrder>>

NextReaders ==
    \/ Next
    \/ \E op \in ReaderOps : ReaderEnter(op)
    \/ ReaderLeave

\* the writer and one concurrent reader
SpecReaders == Init /\ [][NextReaders]_vars

-----------------------------------------------------------------------------
(* Readers under cs.mu *)
GetHeight == currentBlockHeight

GetCurrentBlockHash == currentBlockHash

(* Vocabulary of the properties *)
InPersistSuccess ==
    pc \in {"committed", "persisted", "wroteHeight", "pointed", "cached", "initPutVersion"}

PersistErrors ==
    { IOError, "unsupported transaction type", "generate state root error",
      "state root not equal", "not found", "invalid height to update donation" }

PersistFailed == pc \in {"returned", "failed"} /\ ret \in PersistErrors

TxRecord(b, i) == PutUint32LE(b.header.height) \o TxMarshal(b.txs[i])

DerivedKeys(b) ==
    {HeaderKey(BlockHash(b)), BlockhashKey(b.header.height), CurrentStateTrie,
     CurrentBlockHashKey}
        \cup {TransactionKey(TxHash(b.txs[i])) : i \in DOMAIN b.txs}
        \cup (IF b.header.height % RewardAdjustInterval = 0
              THEN {DonationKey(b.header.height)} ELSE {})

AllRecordsDurable(d, before, b) ==
    /\ \A k \in DerivedKeys(b) : Has(d, k)
    /\ d[HeaderKey(BlockHash(b))] = Trim(b)
    /\ d[BlockhashKey(b.header.height)] = BlockHash(b)
    /\ \A i \in DOMAIN b.txs : d[TransactionKey(TxHash(b.txs[i]))] = TxRecord(b, i)
    /\ d[CurrentStateTrie] = b.header.stateRoot
    /\ d[CurrentBlockHashKey] = <<BlockHash(b), b.header.height>>
    /\ b.header.height % RewardAdjustInterval = 0
          => DonationDeserialize(d[DonationKey(b.header.height)]).Height = b.header.height
    /\ \A k \in (DOMAIN d \cup DOMAIN before) \ DerivedKeys(b) :
          Has(d, k) /\ Has(before, k) /\ d[k] = before[k]

\* C1: persist is all-or-nothing on the durable store: while the batch is only
\* staged and after every failed persist the store is what it was when the call
\* began; after a committed persist it holds every derived record of the block
\* (header, index entry, every transaction, state root, donation at an adjustment
\* height, chain pointer) and is unchanged elsewhere.
C1_PersistAllOrNothing ==
    /\ (pc = "staged" \/ PersistFailed) => db = dbBefore
    /\ InPersistSuccess => AllRecordsDurable(db, dbBefore, cur)

C1_Witness ==
    /\ pc = "committed"
    /\ ctx = "save"
    /\ cur.header.height = RewardAdjustInterval
    /\ Len(cur.txs) = 2
    /\ db # dbBefore

\* C2: a block whose declared state root differs from the computed one is
\* rejected with the store and the in-memory pointer unchanged; a batch is only
\* ever ready to commit, or committed, for a block whose declared root equals the
\* root computed from the state view the call began with.
C2_RootMismatchRejected ==
    /\ (pc = "returned" /\ ret = "state root not equal")
          => /\ db = dbBefore
             /\ <<currentBlockHash, currentBlockHeight>> = ptrBefore
    /\ (pc = "staged" \/ InPersistSuccess)
          => cur.header.stateRoot = generateStateRoot(statesBefore, cur).root
    /\ (pc = "returned"
            /\ cur.header.stateRoot # generateStateRoot(statesBefore, cur).root)
          => ret \in { "state root not equal", IOError, "unsupported transaction type",
                       "generate state root error" }

C2_Witness ==
    /\ pc = "returned"
    /\ ret = "state root not equal"
    /\ cur.header.stateRoot # generateStateRoot(statesBefore, cur).root
    /\ Len(batch) >= 3

\* C3: when SaveBlock(B) has returned without error, GetHeight is B's height,
\* GetCurrentBlockHash is B's hash, the durable chain pointer is (B.hash, B.height)
\* and GetBlock(B.hash) gives B's transactions in B's order.
C3_SavedBlockReadBack ==
    (pc = "returned" /\ ret = "ok")
        => /\ GetHeight = cur.header.height
           /\ GetCurrentBlockHash = BlockHash(cur)
           /\ getCurrentBlockHashFromDB(db)
                = [ok |-> TRUE, hash |-> BlockHash(cur), height |-> cur.header.height]
           /\ GetBlock(db, BlockHash(cur)).ok
           /\ GetBlock(db, BlockHash(cur)).block.txs = cur.txs
           /\ GetBlock(db, BlockHash(cur)).block.header = cur.header

C3_Witness ==
    /\ pc = "returned"
    /\ ret = "ok"
    /\ Len(cur.txs) = 2
    /\ cur.header.height = ptrBefore[2] + 1
    /\ cur.header.height > 0

BlockRecordsDurable(d, hash) ==
    /\ Has(d, HeaderKey(hash))
    /\ Has(d, BlockhashKey(HeaderOfTrimmed(d[HeaderKey(hash)]).height))
    /\ \A i \in DOMAIN TxHashesOfTrimmed(d[HeaderKey(hash)]) :
          Has(d, TransactionKey(TxHashesOfTrimmed(d[HeaderKey(hash)])[i]))

\* C4: once the store has started, the in-memory chain pointer names a block
\* whose header, index entry and transaction records are durable, in every state
\* of a SaveBlock call and after it; so does the durable chain-pointer record
\* whenever it exists; and the in-memory pointer differs from its value at the
\* start of the call only after BatchCommit has succeeded for the block.
C4_PointerNamesDurableBlock ==
    /\ Started => BlockRecordsDurable(db, currentBlockHash)
    /\ Has(db, CurrentBlockHashKey)
          => /\ BlockRecordsDurable(db, db[CurrentBlockHashKey][1])
             /\ db[BlockhashKey(db[CurrentBlockHashKey][2])] = db[CurrentBlockHashKey][1]
             /\ HeaderOfTrimmed(db[HeaderKey(db[CurrentBlockHashKey][1])]).height
                  = db[CurrentBlockHashKey][2]
    /\ (Started /\ <<currentBlockHash, currentBlockHeight>> # ptrBefore)
          => /\ pc \in {"wroteHeight", "pointed", "cached", "returned"}
             /\ cur.header \in persisted
             /\ db[CurrentBlockHashKey] = <<BlockHash(cur), cur.header.height>>

C4_Witness ==
    /\ pc = "wroteHeight"
    /\ currentBlockHeight = cur.header.height
    /\ currentBlockHash # BlockHash(cur)
    /\ Len(cur.txs) = 2

\* C5: every error SaveBlock returns leaves the durable store and the in-memory
\* chain pointer as they were when the call began.
C5_EveryErrorLeavesStoreUnchanged ==
    (pc = "returned" /\ ret # "ok")
        => /\ db = dbBefore
           /\ <<currentBlockHash, currentBlockHeight>> = ptrBefore

HasUnsupported(b) == \E i \in DOMAIN b.txs : b.txs[i].type \notin SupportedTypes

\* C6: a block with a transaction of an unsupported payload type is rejected by
\* persist with "unsupported transaction type", and what was staged for it never
\* becomes durable: no durable header lists a transaction of unsupported type, no
\* durable transaction record holds one, every durable index entry names a durable
\* header, and every durable transaction record belongs to a committed block of
\* the height it is stored with.
C6_UnsupportedNeverDurable ==
    /\ HasUnsupported(cur)
          => /\ pc \in {"idle", "returned", "failed", "start"}
             /\ pc = "returned" => ret = "unsupported transaction type"
    /\ \A k \in DOMAIN db :
          /\ k[1] = "header"
                => \A i \in DOMAIN TxHashesOfTrimmed(db[k]) :
                      TxHashesOfTrimmed(db[k])[i] # TxHash(TxUnknown)
          /\ k[1] = "transaction"
                => /\ TxUnmarshal(SubSeq(db[k], 5, Len(db[k]))).type \in SupportedTypes
                   /\ \E h \in persisted :
                         /\ h.height = Uint32LE(db[k])
                         /\ Has(db, HeaderKey(HeaderHash(h)))
                         /\ \E i \in DOMAIN TxHashesOfTrimmed(db[HeaderKey(HeaderHash(h))]) :
                               TxHashesOfTrimmed(db[HeaderKey(HeaderHash(h))])[i] = k[2]
          /\ k[1] = "blockhash"
                => /\ Has(db, HeaderKey(db[k]))
                   /\ \E h \in persisted : HeaderHash(h) = db[k] /\ h.height = k[2]

C6_Witness ==
    /\ pc = "returned"
    /\ ret = "unsupported transaction type"
    /\ Len(cur.txs) = 2
    /\ Len(batch) = 4
    /\ db = dbBefore

\* C7: IsBlockInStore is false for every header above the current height, cached
\* through AddHeader or durable, and true for every committed header at or below
\* it, in every state, the window between the commit and the pointer update of a
\* SaveBlock included.
C7_IsBlockInStore ==
    /\ \A hash \in DOMAIN headerCache.byHash :
          headerCache.byHash[hash].height > currentBlockHeight
              => ~IsBlockInStore(db, currentBlockHeight, hash)
    /\ \A h \in persisted :
          IsBlockInStore(db, currentBlockHeight, HeaderHash(h))
              = (h.height <= currentBlockHeight)

C7_Witness ==
    /\ pc = "committed"
    /\ ctx = "save"
    /\ cur.header.height > currentBlockHeight
    /\ BlockHash(cur) \in DOMAIN headerCache.byHash
    /\ Has(db, HeaderKey(BlockHash(cur)))

\* C8: every durable donation record is stored at a multiple of the adjustment
\* interval, carries the height of its key, and, above height 0, has a durable
\* record exactly one interval below it.
C8_DonationChain ==
    \A k \in DOMAIN db :
        k[1] = "donation"
            => /\ k[2] % RewardAdjustInterval = 0
               /\ DonationDeserialize(db[k]).Height = k[2]
               /\ k[2] > 0 => Has(db, DonationKey(k[2] - RewardAdjustInterval))

C8_Witness ==
    /\ Has(db, DonationKey(2 * RewardAdjustInterval))
    /\ Has(db, DonationKey(RewardAdjustInterval))

LastBoundary == (currentBlockHeight \div RewardAdjustInterval) * RewardAdjustInterval

\* C9: CalcNextDonation(0) is the record (0, 0); for a height above 0 it fails
\* when no record is durable one interval below that height and when the height
\* is not the last boundary's height plus the interval; a persist that fails in
\* it leaves the durable store as it was.
C9_CalcNextDonation ==
    /\ CalcNextDonation(db, currentBlockHeight, States, 0)
          = [ok |-> TRUE, donation |-> NewDonation(0, 0)]
    /\ \A height \in 1 .. MaxHeight + RewardAdjustInterval :
          (\/ ~Has(db, DonationKey(height - RewardAdjustInterval))
           \/ height # LastBoundary + RewardAdjustInterval)
              => ~CalcNextDonation(db, currentBlockHeight, States, height).ok
    /\ (pc = "returned" /\ ret \in {"not found", "invalid height to update donation"})
          => db = dbBefore

C9_Witness ==
    /\ pc = "returned"
    /\ ret = "invalid height to update donation"
    /\ cur.header.height = 2 * RewardAdjustInterval
    /\ Has(db, DonationKey(0))
    /\ Len(batch) >= 3

\* C10: the donation record committed with the block at an adjustment height
\* above 0 has amount ((X * dividendFactor) div divisorFactor) div interval, X
\* being the treasury balance of the state view the call began with.
C10_DonationAmount ==
    (pc = "committed" /\ cur.header.height > 0
        /\ cur.header.height % RewardAdjustInterval = 0)
        => DonationDeserialize(db[DonationKey(cur.header.height)])
             = [Height |-> cur.header.height,
                Amount |-> ((statesBefore.balance * DonationAdjustDividendFactor)
                                \div DonationAdjustDivisorFactor)
                                \div RewardAdjustInterval]

C10_Witness ==
    /\ pc = "committed"
    /\ cur.header.height = RewardAdjustInterval
    /\ ptrBefore[2] = RewardAdjustInterval - 1
    /\ statesBefore.balance = 5
    /\ SumAmounts(cur.txs) > 0
    /\ DonationDeserialize(db[DonationKey(RewardAdjustInterval)]).Amount = 1

StoredRoot(d, height) == GetHeader(d, GetBlockHash(d, height).hash).header.stateRoot

HeightPersisted(d, height) ==
    GetBlockHash(d, height).ok /\ GetHeader(d, GetBlockHash(d, height).hash).ok

\* C11: GetStateRoots(from, to) fails when to < from; for from = to at a persisted
\* height it returns exactly the declared state root of the header at that
\* height; for from <= to it returns either an error or to - from + 1 roots, the
\* declared roots of the heights from .. to in ascending order.  (It is a read:
\* the operator has no effect on the store.)
C11_GetStateRoots ==
    \A fromHeight \in 0 .. MaxUint32, toHeight \in 0 .. MaxUint32 :
        LET r == GetStateRoots(db, fromHeight, toHeight)
        IN  /\ toHeight < fromHeight => ~r.ok
            /\ (fromHeight = toHeight /\ HeightPersisted(db, fromHeight))
                  => r = [ok |-> TRUE, roots |-> <<StoredRoot(db, fromHeight)>>]
            /\ (fromHeight <= toHeight /\ r.ok)
                  => /\ Len(r.roots) = toHeight - fromHeight + 1
                     /\ \A j \in DOMAIN r.roots :
                           r.roots[j] = StoredRoot(db, fromHeight + j - 1)

BlockRecordKinds == {"header", "blockhash", "transaction"}

\* C12: no step of a SaveBlock call, successful or failed, updates or deletes a
\* header record, a height->hash index entry or a transaction record that is
\* already durable.
C12_BlockRecordsImmutable ==
    [][ctx = "save"
          => \A k \in DOMAIN db :
                k[1] \in BlockRecordKinds => Has(db', k) /\ db'[k] = db[k]]_vars

PruningModes == {"lowmem", "none"}

\* C13: with a configured state pruning mode that is neither "lowmem" nor "none",
\* InitLedgerStoreWithGenesisBlock never returns without error, whichever
\* start-up path it takes.
C13_UnknownModeFailsStartup ==
    config.mode \notin PruningModes => ~Started

\* C14: after a start on genesis and successful in-order SaveBlock calls up to
\* height h > cacheSize, every cached header has a height above h - cacheSize,
\* the cache holds at most cacheSize headers, and the header of block h is cached.
C14_HeaderCacheWindow ==
    (inOrder /\ pc \in {"cached", "returned", "idle"}
        /\ currentBlockHeight > BlockHeaderCacheSize)
        => /\ \A height \in DOMAIN headerCache.byHeight :
                 height > currentBlockHeight - BlockHeaderCacheSize
           /\ Cardinality(DOMAIN headerCache.byHash) <= BlockHeaderCacheSize
           /\ currentBlockHash \in DOMAIN headerCache.byHash
           /\ headerCache.byHash[currentBlockHash].height = currentBlockHeight

EvictedHeight == currentBlockHeight - BlockHeaderCacheSize

\* C15: when SaveBlock evicts the header cached for height h, a cache lookup by
\* that header's hash reports not-found afterwards, the durable GetHeader for the
\* hash still returns the header, GetHeightByBlockHash returns h through the
\* durable path, and the eviction changes no durable key.
C15_EvictedHeaderStaysDurable ==
    [][(pc = "pointed" /\ pc' = "cached" /\ currentBlockHeight > BlockHeaderCacheSize
            /\ EvictedHeight \in DOMAIN headerCache.byHeight)
          => LET hash == headerCache.byHeight[EvictedHeight]
             IN  /\ ~GetHeaderWithCache(headerCache', hash).ok
                 /\ GetHeader(db', hash) = [ok |-> TRUE, header |-> headerCache.byHash[hash]]
                 /\ GetHeightByBlockHash(headerCache', db', hash)
                       = [ok |-> TRUE, height |-> EvictedHeight]
                 /\ db' = db]_vars

C15_Witness ==
    /\ pc = "cached"
    /\ inOrder
    /\ currentBlockHeight > BlockHeaderCacheSize
    /\ EvictedHeight \notin DOMAIN headerCache.byHeight
    /\ GetBlockHash(db, EvictedHeight).ok
    /\ ~GetHeaderWithCache(headerCache, GetBlockHash(db, EvictedHeight).hash).ok
    /\ GetHeightByBlockHash(headerCache, db, GetBlockHash(db, EvictedHeight).hash)
          = [ok |-> TRUE, height |-> EvictedHeight]

\* C16: a reader is inside its read of a chain pointer field only while it holds
\* cs.mu, so no reader is inside such a read while the writer holds cs.mu for its
\* update of the pointer.
C16_PointerAccessUnderLock ==
    /\ reader # "none" => mu = "reader"
    /\ mu = "writer" => reader = "none"

InMemory == <<States, currentBlockHash, currentBlockHeight, headerCache>>

\* C17: a persist call that fails, at any staging step or at BatchCommit, leaves
\* States, the in-memory chain pointer and the header cache as they were; States
\* is still the old handle while the batch is staged and committed; the step
\* after the successful commit sets it to the handle the state transition made
\* from the old one, whose root is the block's declared root and the durable
\* current state root; and no other step of a running store replaces States.
C17_StatesReplacedOnCommit ==
    [][/\ (pc \in {"idle", "initPersist", "staged"} /\ pc' \in {"returned", "failed"})
             => InMemory' = InMemory
       /\ (pc \in {"idle", "initPersist", "staged"} /\ pc' \in {"staged", "committed"})
             => InMemory' = InMemory
       /\ (pc = "committed" /\ pc' \in {"persisted", "initPutVersion"})
             => /\ States' = generateStateRoot(States, cur).states
                /\ States'.root = cur.header.stateRoot
                /\ States'.root = db[CurrentStateTrie]
                /\ <<currentBlockHash', currentBlockHeight', headerCache'>>
                      = <<currentBlockHash, currentBlockHeight, headerCache>>
       /\ (States' # States /\ pc # "start" /\ pc' # "start")
             => pc = "committed"]_vars

C17_Witness ==
    /\ pc = "persisted"
    /\ States = newStates
    /\ States # statesBefore
    /\ States.root = cur.header.stateRoot
    /\ Len(cur.txs) = 2

InMemoryPointer == <<currentBlockHash, currentBlockHeight>>

DurablePointer(d) == <<getCurrentBlockHashFromDB(d).hash, getCurrentBlockHashFromDB(d).height>>

\* C18: once the store has started the durable chain-pointer record exists; with
\* no SaveBlock in progress the in-memory pointer equals it; during a SaveBlock
\* each in-memory field has its value of the durable pointer before the call or
\* of the durable pointer now, and outside the writer's critical section so has
\* the pair; whenever the pair differs from the durable pointer, the durable
\* pointer is the one ahead: it names the committed block of the call.
C18_PointerAgreement ==
    Started
        => /\ getCurrentBlockHashFromDB(db).ok
           /\ getCurrentBlockHashFromDB(dbBefore).ok
           /\ pc = "idle" => InMemoryPointer = DurablePointer(db)
           /\ currentBlockHash \in {DurablePointer(dbBefore)[1], DurablePointer(db)[1]}
           /\ currentBlockHeight \in {DurablePointer(dbBefore)[2], DurablePointer(db)[2]}
           /\ mu # "writer"
                 => InMemoryPointer \in {DurablePointer(dbBefore), DurablePointer(db)}
           /\ InMemoryPointer # DurablePointer(db)
                 => /\ pc \in {"committed", "persisted", "wroteHeight"}
                    /\ cur.header \in persisted
                    /\ DurablePointer(db) = <<BlockHash(cur), cur.header.height>>
                    /\ currentBlockHash = DurablePointer(dbBefore)[1]

C18_Witness ==
    /\ pc = "persisted"
    /\ InMemoryPointer = DurablePointer(dbBefore)
    /\ DurablePointer(db) = <<BlockHash(cur), cur.header.height>>
    /\ InMemoryPointer # DurablePointer(db)
    /\ currentBlockHeight + 1 = cur.header.height

\* C19: whenever InitLedgerStoreWithGenesisBlock has returned without error and
\* no call is in progress, States is set and rooted at the durable current state
\* root, the in-memory chain pointer equals the durable chain pointer, and the
\* current header is in the header cache.
C19_StartedMeansInitialized ==
    pc = "idle"
        => /\ States # NilStateDB
           /\ GetCurrentBlockStateRoot(db) = [ok |-> TRUE, root |-> States.root]
           /\ InMemoryPointer = DurablePointer(db)
           /\ GetCachedHeader(headerCache, currentBlockHash).ok
           /\ GetCachedHeader(headerCache, currentBlockHash).header.height
                 = currentBlockHeight

GenesisDurable(d) ==
    /\ GetHeader(d, BlockHash(GenesisBlock)) = [ok |-> TRUE, header |-> GenesisBlock.header]
    /\ getCurrentBlockHashFromDB(d).ok

\* C20: in every durable state, through crashes and failed starts at any point,
\* a version marker equal to the configured version comes with a durable genesis
\* header and a durable chain-pointer record; and a start that finds another
\* marker, or none, either fails without a write or empties the store, after
\* which the marker is written only once genesis is durable again.
C20_VersionMarkerMeansGenesis ==
    /\ [](StoredVersion = DBVersion => GenesisDurable(db))
    /\ [][(pc = "start" /\ StoredVersion # DBVersion /\ pc' # "start")
             => \/ pc' = "failed" /\ db' = db
                \/ pc' = "initPersist" /\ db' = EmptyDB]_vars
    /\ [][(StoredVersion # DBVersion /\ StoredVersion' = DBVersion)
             => pc = "initPutVersion" /\ GenesisDurable(db)]_vars

C20_Witness ==
    /\ pc = "start"
    /\ StoredVersion # DBVersion
    /\ GenesisDurable(db)

====
